---- MODULE Spec2Model ----
(***************************************************************************)
(* Model of three Ansible modules of ansible-modules-extras:                *)
(*   cloud/amazon/elasticache_tag.py  tag reconciliation (add / remove)     *)
(*   cloud/amazon/ec2_asg_facts.py    ASG query by name prefix and tags     *)
(*   cloud/amazon/ec2_asg_find.py     ASG query by name prefix              *)
(*                                                                          *)
(* In elasticache_tag a Python dict of tags is a total function over        *)
(* DictKeys whose value is NoTag where the dict has no such key, and the    *)
(* AWS tag format is a sequence of [Key, Value] records.  In the query      *)
(* modules a dict is the sequence of its items in iteration order.  A       *)
(* Python str is a string, read character by character with SubSeq.         *)
(***************************************************************************)
EXTENDS Integers, Sequences, FiniteSets, TLC

\* ------------------------------------------------------------------------
\* Bounds
\* ------------------------------------------------------------------------
NumKeys == 2

KeyNames == <<"Env", "Service", "Name", "Team">>

Keys == {KeyNames[i] : i \in 1..NumKeys}

Vals == {"dev", "prod"}

NoTag == "<absent>"

DictKeys == Keys \cup {"DryRunMode"}

\* iteration order of a dict (fixed, as in one run of the interpreter)
KeyOrder == [i \in 1..(NumKeys + 1) |-> IF i <= NumKeys THEN KeyNames[i] ELSE "DryRunMode"]

EmptyDict == [k \in DictKeys |-> NoTag]

\* the dicts a caller can pass as `tags`, and the tag sets a cluster can carry
TagDicts == {d \in [DictKeys -> Vals \cup {NoTag}] : d["DryRunMode"] = NoTag}

has_key(d, k) == d[k] # NoTag

DictKeySet(d) == {k \in DOMAIN d : has_key(d, k)}

\* d.keys(): the keys of a dict as a list, in iteration order
RECURSIVE KeysFrom(_, _)
KeysFrom(d, i) ==
    IF i > Len(KeyOrder) THEN <<>>
    ELSE (IF has_key(d, KeyOrder[i]) THEN <<KeyOrder[i]>> ELSE <<>>) \o KeysFrom(d, i + 1)

keys(d) == KeysFrom(d, 1)

Range(s) == {s[i] : i \in DOMAIN s}

\* ------------------------------------------------------------------------
\* elasticache_tag.py: format conversions
\* ------------------------------------------------------------------------
RECURSIVE ProperFormatLoop(_, _, _)
ProperFormatLoop(tags, i, formatted_tags) ==
    IF i > Len(tags) THEN formatted_tags
    ELSE ProperFormatLoop(tags, i + 1,
                          [formatted_tags EXCEPT ![tags[i].Key] = tags[i].Value])

make_tags_in_proper_format(tags) == ProperFormatLoop(tags, 1, EmptyDict)

RECURSIVE AwsFormatLoop(_, _)
AwsFormatLoop(tags, i) ==
    IF i > Len(KeyOrder) THEN <<>>
    ELSE (IF has_key(tags, KeyOrder[i])
          THEN <<[Key |-> KeyOrder[i], Value |-> tags[KeyOrder[i]]]>>
          ELSE <<>>) \o AwsFormatLoop(tags, i + 1)

make_tags_in_aws_format(tags) == AwsFormatLoop(tags, 1)

\* ------------------------------------------------------------------------
\* The ElastiCache client: the tags the cluster carries and the log of the
\* API calls of the current invocation.  Call number n raises ClientError
\* iff n \in fail.
\* ------------------------------------------------------------------------
NoCall == [api |-> "none", Tags |-> <<>>, TagKeys |-> <<>>, ok |-> TRUE]

Raises(client, fail) == (Len(client.calls) + 1) \in fail

Logged(client, call) == [client EXCEPT !.calls = Append(client.calls, call)]

list_tags_for_resource(client, fail) ==
    LET ok == ~Raises(client, fail)
    IN  [ok     |-> ok,
         value  |-> IF ok THEN make_tags_in_aws_format(client.tags) ELSE <<>>,
         client |-> Logged(client, [NoCall EXCEPT !.api = "list_tags_for_resource",
                                                  !.ok = ok])]

\* an add_tags_to_resource that replaces the tags of the resource
add_tags_to_resource_replacing(client, fail, Tags) ==
    LET ok == ~Raises(client, fail)
        logged == Logged(client, [NoCall EXCEPT !.api = "add_tags_to_resource",
                                                !.Tags = Tags, !.ok = ok])
    IN  [ok     |-> ok,
         client |-> IF ok
                    THEN [logged EXCEPT !.tags = ProperFormatLoop(Tags, 1, EmptyDict)]
                    ELSE logged]

add_tags_to_resource(client, fail, Tags) ==
    LET ok == ~Raises(client, fail)
        logged == Logged(client, [NoCall EXCEPT !.api = "add_tags_to_resource",
                                                !.Tags = Tags, !.ok = ok])
    IN  [ok     |-> ok,
         client |-> IF ok
                    THEN [logged EXCEPT !.tags = ProperFormatLoop(Tags, 1, client.tags)]
                    ELSE logged]

remove_tags_from_resource(client, fail, TagKeys) ==
    LET ok == ~Raises(client, fail)
        logged == Logged(client, [NoCall EXCEPT !.api = "remove_tags_from_resource",
                                                !.TagKeys = TagKeys, !.ok = ok])
    IN  [ok     |-> ok,
         client |-> IF ok
                    THEN [logged EXCEPT !.tags = [k \in DictKeys |->
                              IF k \in Range(TagKeys) THEN NoTag ELSE client.tags[k]]]
                    ELSE logged]

\* ------------------------------------------------------------------------
\* elasticache_tag.py: get_tags, tags_action
\* ------------------------------------------------------------------------
get_tags(client, fail, check_mode) ==
    IF ~check_mode
    THEN LET r == list_tags_for_resource(client, fail)
         IN  [success |-> r.ok,
              err_msg |-> IF r.ok THEN "" ELSE "ClientError",
              results |-> r.value,
              client  |-> r.client]
    ELSE [success |-> TRUE,
          err_msg |-> "",
          results |-> <<[Key |-> "DryRunMode", Value |-> "true"]>>,
          client  |-> client]

\* a tags_action that ignores check_mode
tags_action_no_check_mode(client, fail, tags, action, check_mode) ==
    CASE action = "create" ->
            LET r == add_tags_to_resource(client, fail, tags)
            IN  [success |-> r.ok,
                 err_msg |-> IF r.ok THEN "" ELSE "ClientError",
                 client  |-> r.client]
      [] action = "delete" ->
            LET r == remove_tags_from_resource(client, fail, keys(tags))
            IN  [success |-> r.ok,
                 err_msg |-> IF r.ok THEN "" ELSE "ClientError",
                 client  |-> r.client]
      [] OTHER ->
            [success |-> FALSE, err_msg |-> "Invalid action", client |-> client]

\* a tags_action whose create call sends only the first of the tags
tags_action_first_tag(client, fail, tags, action, check_mode) ==
    IF ~check_mode
    THEN CASE action = "create" ->
                LET r == add_tags_to_resource(client, fail, SubSeq(tags, 1, 1))
                IN  [success |-> r.ok,
                     err_msg |-> IF r.ok THEN "" ELSE "ClientError",
                     client  |-> r.client]
           [] action = "delete" ->
                LET r == remove_tags_from_resource(client, fail, keys(tags))
                IN  [success |-> r.ok,
                     err_msg |-> IF r.ok THEN "" ELSE "ClientError",
                     client  |-> r.client]
           [] OTHER ->
                [success |-> FALSE, err_msg |-> "Invalid action", client |-> client]
    ELSE CASE action = "create" ->
                [success |-> TRUE, err_msg |-> "", client |-> client]
           [] action = "delete" ->
                [success |-> TRUE, err_msg |-> "", client |-> client]
           [] OTHER ->
                [success |-> FALSE, err_msg |-> "Invalid action", client |-> client]

tags_action(client, fail, tags, action, check_mode) ==
    IF ~check_mode
    THEN CASE action = "create" ->
                LET r == add_tags_to_resource(client, fail, tags)
                IN  [success |-> r.ok,
                     err_msg |-> IF r.ok THEN "" ELSE "ClientError",
                     client  |-> r.client]
           [] action = "delete" ->
                LET r == remove_tags_from_resource(client, fail, keys(tags))
                IN  [success |-> r.ok,
                     err_msg |-> IF r.ok THEN "" ELSE "ClientError",
                     client  |-> r.client]
           [] OTHER ->
                [success |-> FALSE, err_msg |-> "Invalid action", client |-> client]
    ELSE CASE action = "create" ->
                [success |-> TRUE, err_msg |-> "", client |-> client]
           [] action = "delete" ->
                [success |-> TRUE, err_msg |-> "", client |-> client]
           [] OTHER ->
                [success |-> FALSE, err_msg |-> "Invalid action", client |-> client]

\* ------------------------------------------------------------------------
\* elasticache_tag.py: add, remove, main
\* ------------------------------------------------------------------------
NoDiff == [set |-> FALSE, before |-> EmptyDict, after |-> EmptyDict]

\* a Python value bound to a `tags` parameter: a dict or a bool
PyDict(d) == [type |-> "dict", d |-> d, b |-> FALSE]

PyBool(b) == [type |-> "bool", d |-> EmptyDict, b |-> b]

Raised(exc, client) ==
    [exc |-> exc, success |-> FALSE, changed |-> FALSE, err_msg |-> "",
     tags |-> EmptyDict, diff |-> NoDiff, client |-> client]

\* a comparison that never finds a desired tag up to date
tags_to_update_always(tags, current_tags) == tags

\* add(), lines 301-307: the desired keys that are missing or carry another value
tags_to_update(tags, current_tags) ==
    [key \in DictKeys |->
        IF has_key(tags, key)
        THEN (IF has_key(current_tags, key)
              THEN (IF current_tags[key] # tags[key] THEN tags[key] ELSE NoTag)
              ELSE tags[key])
        ELSE NoTag]

\* a delta that does not look at the current tags
tags_to_delete_all(tags, current_tags) == tags

\* remove(), lines 365-368: the desired keys the resource carries
tags_to_delete(tags, current_tags) ==
    [key \in DictKeys |->
        IF has_key(tags, key) /\ has_key(current_tags, key) THEN tags[key] ELSE NoTag]

\* an add() that returns the desired tags for the re-fetched ones
add_returns_desired(client, fail, tags, check_mode, diff_mode) ==
    LET got == get_tags(client, fail, FALSE)
    IN  IF diff_mode
        THEN [exc |-> "none", success |-> TRUE, changed |-> FALSE, err_msg |-> "",
              tags |-> tags,
              diff |-> [set |-> TRUE,
                        before |-> make_tags_in_proper_format(got.results),
                        after |-> tags],
              client |-> got.client]
        ELSE LET current_tags == make_tags_in_proper_format(got.results)
                 to_update == tags_to_update(tags, current_tags)
                 act == IF to_update # EmptyDict
                        THEN tags_action(got.client, fail, make_tags_in_aws_format(tags),
                                         "create", check_mode)
                        ELSE [success |-> TRUE, err_msg |-> "Nothing to update",
                              client |-> got.client]
                 new == get_tags(act.client, fail, FALSE)
             IN  [exc |-> "none",
                  success |-> act.success,
                  changed |-> (to_update # EmptyDict) /\ act.success,
                  err_msg |-> IF (to_update # EmptyDict) /\ act.success
                              THEN "Tags updated" ELSE act.err_msg,
                  tags |-> tags,
                  diff |-> NoDiff,
                  client |-> new.client]

add(client, fail, tags, check_mode, diff_mode) ==
    LET got == get_tags(client, fail, FALSE)
    IN  IF diff_mode
        THEN [exc |-> "none", success |-> TRUE, changed |-> FALSE, err_msg |-> "",
              tags |-> tags,
              diff |-> [set |-> TRUE,
                        before |-> make_tags_in_proper_format(got.results),
                        after |-> tags],
              client |-> got.client]
        ELSE LET current_tags == make_tags_in_proper_format(got.results)
                 to_update == tags_to_update(tags, current_tags)
                 act == IF to_update # EmptyDict
                        THEN tags_action(got.client, fail, make_tags_in_aws_format(tags),
                                         "create", check_mode)
                        ELSE [success |-> TRUE, err_msg |-> "Nothing to update",
                              client |-> got.client]
                 new == get_tags(act.client, fail, FALSE)
             IN  [exc |-> "none",
                  success |-> act.success,
                  changed |-> (to_update # EmptyDict) /\ act.success,
                  err_msg |-> IF (to_update # EmptyDict) /\ act.success
                              THEN "Tags updated" ELSE act.err_msg,
                  tags |-> make_tags_in_proper_format(new.results),
                  diff |-> NoDiff,
                  client |-> new.client]

remove(client, fail, tags, check_mode, diff_mode) ==
    LET got == get_tags(client, fail, FALSE)
    IN  IF diff_mode
        THEN LET before == make_tags_in_proper_format(got.results)
             IN  IF tags.type # "dict"
                 THEN Raised("TypeError", got.client)
                 ELSE IF \E tag \in DictKeySet(tags.d) : ~has_key(before, tag)
                 THEN Raised("KeyError", got.client)
                 ELSE [exc |-> "none", success |-> TRUE, changed |-> FALSE,
                       err_msg |-> "",
                       tags |-> tags.d,
                       diff |-> [set |-> TRUE,
                                 before |-> before,
                                 after |-> [k \in DictKeys |->
                                     IF has_key(tags.d, k) THEN NoTag ELSE before[k]]],
                       client |-> got.client]
        ELSE IF tags.type # "dict"
        THEN Raised("AttributeError", got.client)
        ELSE LET current_tags == make_tags_in_proper_format(got.results)
                 to_delete == tags_to_delete(tags.d, current_tags)
                 act == IF to_delete # EmptyDict
                        THEN tags_action(got.client, fail, to_delete, "delete", check_mode)
                        ELSE [success |-> TRUE, err_msg |-> "Tags do not exist",
                              client |-> got.client]
                 new == get_tags(act.client, fail, FALSE)
             IN  [exc |-> "none",
                  success |-> act.success,
                  changed |-> (to_delete # EmptyDict) /\ act.success,
                  err_msg |-> act.err_msg,
                  tags |-> make_tags_in_proper_format(new.results),
                  diff |-> NoDiff,
                  client |-> new.client]

\* main(), lines 439-460; diff_mode is the constant False of line 411
main(client, fail, state, tags, check_mode) ==
    LET diff_mode == FALSE
        r == IF state = "present"
             THEN add(client, fail, tags, check_mode, diff_mode)
             ELSE remove(client, fail, PyBool(check_mode), diff_mode, FALSE)
    IN  [outcome |-> IF r.exc # "none" THEN "exception"
                     ELSE IF r.success THEN "exit_json" ELSE "fail_json",
         exc |-> r.exc, success |-> r.success, changed |-> r.changed,
         err_msg |-> r.err_msg, tags |-> r.tags, diff |-> NoDiff,
         client |-> r.client]

\* ------------------------------------------------------------------------
\* Python str helpers
\* ------------------------------------------------------------------------
Char(s, i) == SubSeq(s, i, i)

UpperChars == "ABCDEFGHIJKLMNOPQRSTUVWXYZ"

LowerChars == "abcdefghijklmnopqrstuvwxyz"

IsUpper(c) == \E i \in 1..Len(UpperChars) : Char(UpperChars, i) = c

\* str.lower() of one character
LowerChar(c) ==
    IF IsUpper(c)
    THEN Char(LowerChars, CHOOSE i \in 1..Len(UpperChars) : Char(UpperChars, i) = c)
    ELSE c

RECURSIVE lower(_)
lower(s) == IF s = "" THEN "" ELSE LowerChar(Head(s)) \o lower(Tail(s))

\* s.split(','): the pieces of s between commas, the piece being read in cur
RECURSIVE SplitLoop(_, _)
SplitLoop(s, cur) ==
    IF s = "" THEN <<cur>>
    ELSE IF Head(s) = "," THEN <<cur>> \o SplitLoop(Tail(s), "")
    ELSE SplitLoop(Tail(s), cur \o Head(s))

split(s) == SplitLoop(s, "")

\* ------------------------------------------------------------------------
\* The regular expressions of the two query modules.  A name filter is made
\* of literal characters, '.', which matches any character, and '(', which
\* left unclosed makes the pattern one that re refuses to compile.
\* ------------------------------------------------------------------------
\* re.compile(pattern) raises re.error
re_error(pattern) == \E i \in 1..Len(pattern) : Char(pattern, i) = "("

\* re.search('^' + pattern, string) is not None, for a pattern that compiles
re_search_anchored(pattern, string) ==
    /\ Len(string) >= Len(pattern)
    /\ \A i \in 1..Len(pattern) :
          Char(pattern, i) = "." \/ Char(pattern, i) = Char(string, i)

\* camel_prog.sub(r'_\1', key) with camel_prog = '(?!^)([A-Z]+)': an
\* underscore goes before each run of capitals that does not start the key
RECURSIVE CamelSubLoop(_, _)
CamelSubLoop(key, i) ==
    IF i > Len(key) THEN ""
    ELSE (IF /\ i >= 2
             /\ IsUpper(Char(key, i))
             /\ (i = 2 \/ ~IsUpper(Char(key, i - 1)))
          THEN "_" ELSE "") \o Char(key, i) \o CamelSubLoop(key, i + 1)

camel_sub(key) == CamelSubLoop(key, 1)

\* the substitution without the lower() that follows it
new_key_no_lower(key) == camel_sub(key)

\* camel_prog.sub(r'_\1', key).lower()
new_key(key) == lower(camel_sub(key))

\* ------------------------------------------------------------------------
\* The Auto Scaling service: a group as the provider holds it, and as each
\* SDK hands it to the module
\* ------------------------------------------------------------------------
None == "<None>"

\* boto3: one element of describe_auto_scaling_groups()['AutoScalingGroups'];
\* PlacementGroup and Status are left out when the group has none
Boto3Group(g) ==
    [AutoScalingGroupName |-> g.name,
     AutoScalingGroupARN |-> "arn:" \o g.name,
     CreatedTime |-> [datetime |-> "2016-02-02"],
     AvailabilityZones |-> <<"us-west-2a">>,
     DefaultCooldown |-> 300,
     DesiredCapacity |-> 2,
     HealthCheckGracePeriod |-> 300,
     HealthCheckType |-> "ELB",
     LaunchConfigurationName |-> "lc-1",
     LoadBalancerNames |-> <<>>,
     MaxSize |-> 4,
     MinSize |-> 2,
     NewInstancesProtectedFromScaleIn |-> FALSE,
     TerminationPolicies |-> <<"Default">>,
     EnabledMetrics |-> <<>>,
     Instances |-> <<[InstanceId |-> "i-1", LifecycleState |-> "InService"]>>,
     SuspendedProcesses |-> <<>>,
     Tags |-> [i \in DOMAIN g.tags |->
                  [Key |-> g.tags[i].Key, Value |-> g.tags[i].Value,
                   ResourceId |-> g.name, PropagateAtLaunch |-> TRUE]],
     VPCZoneIdentifier |-> g.subnets]

describe_auto_scaling_groups(groups) == [i \in DOMAIN groups |-> Boto3Group(groups[i])]

\* boto: one AutoScalingGroup object of get_all_groups(), by attribute
BotoGroup(g) ==
    [default_cooldown |-> 300,
     instances |-> <<[lifecycle_state |-> "InService", availability_zone |-> "us-west-2a",
                      health_status |-> "Healthy", group_name |-> None,
                      instance_id |-> "i-1", ProtectedFromScaleIn |-> "false",
                      launch_config_name |-> "lc-1", extra |-> "x"]>>,
     health_check_period |-> 300,
     created_time |-> "2016-02-02",
     availability_zones |-> <<"us-west-2a">>,
     desired_capacity |-> 2,
     max_size |-> 4,
     placement_group |-> None,
     NewInstancesProtectedFromScaleIn |-> "false",
     tags |-> [i \in DOMAIN g.tags |->
                  [key |-> g.tags[i].Key, value |-> g.tags[i].Value,
                   resource_id |-> g.name, propagate_at_launch |-> TRUE]],
     autoscaling_group_arn |-> "arn:" \o g.name,
     min_size |-> 2,
     vpc_zone_identifier |-> g.subnets,
     load_balancers |-> <<>>,
     launch_config_name |-> "lc-1",
     name |-> g.name,
     termination_policies |-> <<"Default">>,
     instance_id |-> None,
     health_check_type |-> "ELB",
     connection |-> "conn"]

get_all_groups(groups) == [i \in DOMAIN groups |-> BotoGroup(groups[i])]

\* ------------------------------------------------------------------------
\* ec2_asg_facts.py
\* ------------------------------------------------------------------------
\* a dict is the list of its items in iteration order: <<key, value>> pairs
\* an `else: return False` that lets one matching pair decide
RECURSIVE match_asg_tags_any(_, _)
match_asg_tags_any(tags_to_match, asg) ==
    IF tags_to_match = <<>> THEN FALSE
    ELSE LET key == Head(tags_to_match)[1]
             value == Head(tags_to_match)[2]
         IN  IF \E i \in DOMAIN asg.Tags :
                    key = asg.Tags[i].Key /\ value = asg.Tags[i].Value
             THEN TRUE
             ELSE match_asg_tags_any(Tail(tags_to_match), asg)

RECURSIVE match_asg_tags(_, _)
match_asg_tags(tags_to_match, asg) ==
    IF tags_to_match = <<>> THEN TRUE
    ELSE LET key == Head(tags_to_match)[1]
             value == Head(tags_to_match)[2]
         IN  IF \E i \in DOMAIN asg.Tags :
                    key = asg.Tags[i].Key /\ value = asg.Tags[i].Value
             THEN match_asg_tags(Tail(tags_to_match), asg)
             ELSE FALSE

\* the key lists of find_asgs(), lines 322-326 and 333; the missing comma of
\* line 326 joins 'PlacementGroup' and 'Status' into one string
ScalarKeys ==
    <<"AutoScalingGroupARN", "AutoScalingGroupName", "AvailabilityZones",
      "DefaultCooldown", "DesiredCapacity", "HealthCheckGracePeriod",
      "HealthCheckType", "LaunchConfigurationName", "LoadBalancerNames",
      "MaxSize", "MinSize", "NewInstancesProtectedFromScaleIn",
      "PlacementGroup" \o "Status", "TerminationPolicies">>

ListKeys == <<"EnabledMetrics", "Instances", "SuspendedProcesses", "Tags">>

\* the keys of the items of the list fields
ItemKeys == {"Key", "Value", "ResourceId", "PropagateAtLaunch", "InstanceId", "LifecycleState"}

\* new_key of every key the loops meet, computed once
NewKeys == [k \in Range(ScalarKeys) \cup Range(ListKeys) \cup ItemKeys |-> new_key(k)]

\* dict((camel_prog.sub(r'_\1', k).lower(), v) for k, v in item.iteritems())
ItemDict(item) ==
    LET ks == {NewKeys[k] : k \in DOMAIN item}
    IN  [nk \in ks |-> item[CHOOSE k \in DOMAIN item : NewKeys[k] = nk]]

RECURSIVE ScalarLoop(_, _, _)
ScalarLoop(asg, i, asg_details) ==
    IF i > Len(ScalarKeys) THEN asg_details
    ELSE LET key == ScalarKeys[i]
         IN  ScalarLoop(asg, i + 1,
                 (NewKeys[key] :> (IF key \in DOMAIN asg THEN asg[key] ELSE None))
                     @@ asg_details)

RECURSIVE ListLoop(_, _, _)
ListLoop(asg, i, asg_details) ==
    IF i > Len(ListKeys) THEN asg_details
    ELSE LET key == ListKeys[i]
         IN  ListLoop(asg, i + 1,
                 IF key \in DOMAIN asg
                 THEN (NewKeys[key] :> [j \in DOMAIN asg[key] |-> ItemDict(asg[key][j])])
                          @@ asg_details
                 ELSE asg_details)

\* find_asgs(), lines 319-343: the record returned for one matched group
AsgDetails(asg) ==
    LET created == ("created_time" :> [isoformat |-> asg.CreatedTime.datetime])
        scalars == ScalarLoop(asg, 1, created)
        lists == ListLoop(asg, 1, scalars)
    IN  ("vpc_zone_identifier" :>
            (IF "VPCZoneIdentifier" \in DOMAIN asg
             THEN split(asg.VPCZoneIdentifier) ELSE None)) @@ lists

\* a Python value bound to `name` or `tags`: None or a value
PyNone == [none |-> TRUE, v |-> <<>>]

PyVal(v) == [none |-> FALSE, v |-> v]

\* `if name:` / `if tags:`
Truthy(x) == ~x.none /\ Len(x.v) > 0

\* line 318 with `or` for `and`
Selected_either(matched_name, matched_tags) == matched_name \/ matched_tags

\* line 318
Selected(matched_name, matched_tags) == matched_name /\ matched_tags

\* lines 310-313 with a missing filter matching nothing
MatchedName_none(name, asg) ==
    IF Truthy(name) THEN re_search_anchored(name.v, asg.AutoScalingGroupName)
    ELSE FALSE

\* lines 310-313, for a pattern that compiles
MatchedName(name, asg) ==
    IF Truthy(name) THEN re_search_anchored(name.v, asg.AutoScalingGroupName)
    ELSE TRUE

\* lines 315-316
MatchedTags(tags, asg) ==
    IF Truthy(tags) THEN match_asg_tags(tags.v, asg) ELSE TRUE

RECURSIVE FactsLoop(_, _, _, _, _)
FactsLoop(asgs, i, name, tags, matched_asgs) ==
    IF i > Len(asgs) THEN [exc |-> "none", results |-> matched_asgs]
    ELSE IF Truthy(name) /\ re_error(name.v)
    THEN [exc |-> "re.error", results |-> <<>>]
    ELSE FactsLoop(asgs, i + 1, name, tags,
             IF Selected(MatchedName(name, asgs[i]), MatchedTags(tags, asgs[i]))
             THEN Append(matched_asgs, AsgDetails(asgs[i]))
             ELSE matched_asgs)

\* find_asgs(conn, name, tags) of ec2_asg_facts.py
facts_find_asgs(groups, name, tags) ==
    LET asgs == describe_auto_scaling_groups(groups)
        matched == FactsLoop(asgs, 1, name, tags, <<>>)
    IN  [exc |-> matched.exc, results |-> matched.results,
         calls |-> <<"describe_auto_scaling_groups">>]

\* ------------------------------------------------------------------------
\* ec2_asg_find.py
\* ------------------------------------------------------------------------
ASG_KEYS ==
    {"default_cooldown", "instances", "health_check_period", "created_time",
     "availability_zones", "desired_capacity", "max_size",
     "placement_group", "NewInstancesProtectedFromScaleIn", "tags",
     "autoscaling_group_arn", "min_size", "vpc_zone_identifier",
     "load_balancers", "launch_config_name", "name", "termination_policies",
     "instance_id", "health_check_type"}

INSTANCE_KEYS ==
    {"lifecycle_state", "availability_zone", "health_status", "group_name",
     "instance_id", "ProtectedFromScaleIn", "launch_config_name"}

TAG_KEYS == {"key", "value"}

RECURSIVE SearchLoop(_, _, _, _)
SearchLoop(asgs, i, name, matched_asgs) ==
    IF i > Len(asgs) THEN [exc |-> "none", results |-> matched_asgs]
    ELSE IF re_error(name)
    THEN [exc |-> "re.error", results |-> <<>>]
    ELSE LET asg == [attr \in ASG_KEYS |-> asgs[i][attr]]
         IN  SearchLoop(asgs, i + 1, name,
                 IF re_search_anchored(name, asg.name)
                 THEN Append(matched_asgs, asg)
                 ELSE matched_asgs)

search(asgs, name) == SearchLoop(asgs, 1, name, <<>>)

convert_into_dict(objects, object_keys) ==
    [i \in DOMAIN objects |-> [attr \in object_keys |-> objects[i][attr]]]

convert_tags_into_dict(tags) == convert_into_dict(tags, TAG_KEYS)

convert_instances_into_dict(instances) == convert_into_dict(instances, INSTANCE_KEYS)

SubnetChars == "abcdefghijklmnopqrstuvwxyz0123456789"

\* re.compile(r'^subnet-[a-z0-9]+').search(subnet_ids)
SubnetSearch(subnet_ids) ==
    /\ Len(subnet_ids) >= 8
    /\ SubSeq(subnet_ids, 1, 7) = "subnet-"
    /\ \E i \in 1..Len(SubnetChars) : Char(SubnetChars, i) = Char(subnet_ids, 8)

convert_string_into_list(subnet_ids) ==
    IF SubnetSearch(subnet_ids) THEN split(subnet_ids) ELSE <<>>

\* find_asgs(name, conn) of ec2_asg_find.py
find_find_asgs(name, groups) ==
    LET matched == search(get_all_groups(groups), name)
    IN  [exc |-> matched.exc,
         calls |-> <<"get_all_groups">>,
         results |-> [i \in DOMAIN matched.results |->
             [matched.results[i] EXCEPT
                 !.tags = convert_tags_into_dict(@),
                 !.instances = convert_instances_into_dict(@),
                 !.vpc_zone_identifier = convert_string_into_list(@)]]]

\* ------------------------------------------------------------------------
\* main() of the query modules
\* ------------------------------------------------------------------------
\* main() of both query modules reads `name` when it formats a message, but
\* binds only asg_name; no statement of either file binds a global `name`.
name_is_bound == FALSE

\* an exception that leaves main(): the module prints no result
Crashed(exc, calls) ==
    [outcome |-> "exception", exc |-> exc, msg |-> "", changed |-> FALSE,
     results |-> <<>>, asg_names |-> PyNone, calls |-> calls]

\* module.fail_json(msg=msg, asg_names=asg_names); asg_names is PyNone where
\* the call passes only msg
fail_json(msg, asg_names, calls) ==
    [outcome |-> "fail_json", exc |-> "none", msg |-> msg, changed |-> FALSE,
     results |-> <<>>, asg_names |-> asg_names, calls |-> calls]

\* module.exit_json(changed=..., rc=0, results=results)
exit_json(changed, results, calls) ==
    [outcome |-> "exit_json", exc |-> "none", msg |-> "", changed |-> changed,
     results |-> results, asg_names |-> PyNone, calls |-> calls]

\* main() of ec2_asg_facts.py, from the call of find_asgs() on
facts_main(groups, asg_name, asg_tags, limit_results, no_result_action) ==
    LET got == facts_find_asgs(groups, asg_name, asg_tags)
        results == got.results
        asg_names == [i \in DOMAIN results |-> results[i].auto_scaling_group_name]
    IN  IF got.exc # "none" THEN Crashed(got.exc, got.calls)
        ELSE IF limit_results > 0 /\ Len(results) > limit_results
        THEN IF name_is_bound
             THEN fail_json("More than limit_results ASG found", PyVal(asg_names), got.calls)
             ELSE Crashed("NameError", got.calls)
        ELSE IF no_result_action = "fail" /\ results = <<>>
        THEN fail_json("No results found", PyNone, got.calls)
        ELSE IF results = <<>> /\ no_result_action = "success"
        THEN exit_json(FALSE, results, got.calls)
        ELSE exit_json(TRUE, results, got.calls)

\* main() of ec2_asg_find.py, from the call of find_asgs() on
find_main(groups, asg_name, limit_results, no_result_action) ==
    LET got == find_find_asgs(asg_name, groups)
        results == got.results
        asg_names == [i \in DOMAIN results |-> results[i].name]
    IN  IF got.exc # "none" THEN Crashed(got.exc, got.calls)
        ELSE IF limit_results > 0 /\ Len(results) > limit_results
        THEN IF name_is_bound
             THEN fail_json("More than limit_results ASG found", PyVal(asg_names), got.calls)
             ELSE Crashed("NameError", got.calls)
        ELSE IF no_result_action = "fail" /\ results = <<>>
        THEN IF name_is_bound
             THEN fail_json("No results found for name", PyNone, got.calls)
             ELSE Crashed("NameError", got.calls)
        ELSE IF results = <<>> /\ no_result_action = "success"
        THEN exit_json(FALSE, results, got.calls)
        ELSE exit_json(TRUE, results, got.calls)

\* ------------------------------------------------------------------------
\* State
\* ------------------------------------------------------------------------
VARIABLES
    client,   \* the ElastiCache cluster: [tags, calls]
    before,   \* the cluster's tags when the last invocation started
    params,   \* the arguments of the last invocation
    result,   \* what the last invocation returned or reported
    repeat,   \* 1 after a real add() that found a desired key missing or
              \* different, 2 after the same add() run again right after it
    runs,     \* how many times the task has been run
    groups,   \* the Auto Scaling groups of the region, in the provider's order
    query,    \* the arguments of the query that was run
    found,    \* what the query returned
    report,   \* how main() of a query module ended
    faults,   \* the numbers of the remote calls that raised ClientError
    field,    \* a field name handed to the key canonicalizer
    canon,    \* the successive canonical forms of the field name
    racers    \* the add() calls that run interleaved on the cluster, each
              \* with its arguments, its position and its local variables

tagvars == <<client, before, params, result, repeat, runs>>

queryvars == <<groups, query, found>>

mainvars == <<report>>

faultvars == <<faults>>

canonvars == <<field, canon>>

racevars == <<racers>>

vars == <<client, before, params, result, repeat, runs, groups, query, found,
          report, faults, field, canon, racers>>

NoFail == {}

NoParams == [op |-> "none", state |-> "present", tags |-> EmptyDict,
             check_mode |-> FALSE, diff_mode |-> FALSE]

NoResult == [outcome |-> "none", exc |-> "none", success |-> FALSE, changed |-> FALSE,
             err_msg |-> "", tags |-> EmptyDict, diff |-> NoDiff]

NoQuery == [module |-> "none", name |-> PyNone, tags |-> PyNone]

NoFound == [exc |-> "none", results |-> <<>>, calls |-> <<>>]

NoReport ==
    [limit_results |-> 0, no_result_action |-> "",
     outcome |-> "none", exc |-> "none", msg |-> "", changed |-> FALSE,
     results |-> <<>>, asg_names |-> PyNone, calls |-> <<>>]

\* the two add() calls of an interleaved run
Racers == {1, 2}

\* the local variables of a call of add(): tags is its argument, pc the
\* remote call it makes next
NoRacer ==
    [tags |-> EmptyDict, pc |-> "none", current_tags |-> EmptyDict,
     success |-> FALSE, changed |-> FALSE, new_tags |-> EmptyDict]

NoRacers == [i \in Racers |-> NoRacer]

Fresh(c) == [c EXCEPT !.calls = <<>>]

Returned(r) ==
    [outcome |-> IF r.exc # "none" THEN "exception" ELSE "return",
     exc |-> r.exc, success |-> r.success, changed |-> r.changed,
     err_msg |-> r.err_msg, tags |-> r.tags, diff |-> r.diff]

Reported(r) ==
    [outcome |-> r.outcome, exc |-> r.exc, success |-> r.success, changed |-> r.changed,
     err_msg |-> r.err_msg, tags |-> r.tags, diff |-> r.diff]

\* a real (not check mode, not diff mode) run of add(), directly or through main()
RealAdd(p) ==
    /\ \/ p.op = "add"
       \/ p.op = "main" /\ p.state = "present"
    /\ ~p.check_mode
    /\ ~p.diff_mode

DiffersOnDesiredKey(desired, current) ==
    \E k \in DictKeys : has_key(desired, k) /\ current[k] # desired[k]

\* the history variable repeat after invocation p
Repeated(p) ==
    IF /\ RealAdd(p) /\ RealAdd(params)
       /\ p.tags = params.tags
       /\ DiffersOnDesiredKey(params.tags, before)
    THEN 2
    ELSE IF RealAdd(p) /\ DiffersOnDesiredKey(p.tags, client.tags) THEN 1
    ELSE 0

\* ------------------------------------------------------------------------
\* The tag reconciler.  A task is run on a cluster that carries any tags, and
\* the same task may then be run again (the same arguments on the cluster as
\* the run before left it), up to MaxRuns runs in all.
\* ------------------------------------------------------------------------
MaxRuns == 2

MayRun(p) == runs = 0 \/ (runs < MaxRuns /\ p = params)

Init ==
    /\ client \in [tags : TagDicts, calls : {<<>>}]
    /\ before = client.tags
    /\ params = NoParams
    /\ result = NoResult
    /\ repeat = 0
    /\ runs = 0
    /\ groups = <<>>
    /\ query = NoQuery
    /\ found = NoFound
    /\ report = NoReport
    /\ faults = NoFail
    /\ field = ""
    /\ canon = <<>>
    /\ racers = NoRacers

Invoked(p, r, res) ==
    /\ MayRun(p)
    /\ client' = r.client
    /\ before' = client.tags
    /\ params' = p
    /\ result' = res
    /\ repeat' = Repeated(p)
    /\ runs' = runs + 1
    /\ UNCHANGED <<queryvars, mainvars, faultvars, canonvars, racevars>>

\* a direct call of add()
Add ==
    \E tags \in TagDicts, check_mode \in BOOLEAN, diff_mode \in BOOLEAN :
        LET r == add(Fresh(client), NoFail, tags, check_mode, diff_mode)
        IN  Invoked([op |-> "add", state |-> "present", tags |-> tags,
                     check_mode |-> check_mode, diff_mode |-> diff_mode],
                    r, Returned(r))

\* a direct call of remove()
Remove ==
    \E tags \in TagDicts, check_mode \in BOOLEAN, diff_mode \in BOOLEAN :
        LET r == remove(Fresh(client), NoFail, PyDict(tags), check_mode, diff_mode)
        IN  Invoked([op |-> "remove", state |-> "absent", tags |-> tags,
                     check_mode |-> check_mode, diff_mode |-> diff_mode],
                    r, Returned(r))

\* one run of the module through main()
Main ==
    \E state \in {"present", "absent"}, tags \in TagDicts, check_mode \in BOOLEAN :
        LET r == main(Fresh(client), NoFail, state, tags, check_mode)
        IN  Invoked([op |-> "main", state |-> state, tags |-> tags,
                     check_mode |-> check_mode, diff_mode |-> FALSE],
                    r, Reported(r))

Next == Add \/ Remove \/ Main

Spec == Init /\ [][Next]_vars

\* ------------------------------------------------------------------------
\* One run of add() or remove() in which remote calls may raise ClientError.
\* A run makes at most three remote calls: the fetch, the mutation and the
\* re-fetch; which of them raise is drawn with the arguments.
\* ------------------------------------------------------------------------
CallNumbers == {1, 2, 3}

Faulty(p, fail, r) ==
    /\ runs = 0
    /\ client' = r.client
    /\ before' = client.tags
    /\ params' = p
    /\ result' = Returned(r)
    /\ repeat' = 0
    /\ runs' = 1
    /\ faults' = fail
    /\ UNCHANGED <<queryvars, mainvars, canonvars, racevars>>

\* add() with remote calls that may raise
AddFaulty ==
    \E tags \in TagDicts, check_mode \in BOOLEAN, diff_mode \in BOOLEAN,
       fail \in SUBSET CallNumbers :
        Faulty([op |-> "add", state |-> "present", tags |-> tags,
                check_mode |-> check_mode, diff_mode |-> diff_mode], fail,
               add(Fresh(client), fail, tags, check_mode, diff_mode))

\* remove() with remote calls that may raise
RemoveFaulty ==
    \E tags \in TagDicts, check_mode \in BOOLEAN, diff_mode \in BOOLEAN,
       fail \in SUBSET CallNumbers :
        Faulty([op |-> "remove", state |-> "absent", tags |-> tags,
                check_mode |-> check_mode, diff_mode |-> diff_mode], fail,
               remove(Fresh(client), fail, PyDict(tags), check_mode, diff_mode))

NextFault == AddFaulty \/ RemoveFaulty

SpecFault == Init /\ [][NextFault]_vars

\* ------------------------------------------------------------------------
\* Two real add() calls on one cluster, their remote calls interleaved in
\* any order.  Each call of add() makes its remote calls one at a time:
\* the fetch, the mutation if it found something to update, the re-fetch.
\* Every remote call succeeds.
\* ------------------------------------------------------------------------
InitRace ==
    /\ client \in [tags : TagDicts, calls : {<<>>}]
    /\ before = client.tags
    /\ params = NoParams
    /\ result = NoResult
    /\ repeat = 0
    /\ runs = 0
    /\ groups = <<>>
    /\ query = NoQuery
    /\ found = NoFound
    /\ report = NoReport
    /\ faults = NoFail
    /\ field = ""
    /\ canon = <<>>
    /\ racers \in [Racers -> {[NoRacer EXCEPT !.tags = tags, !.pc = "fetch"] :
                                  tags \in TagDicts}]

RaceUnchanged ==
    UNCHANGED <<before, params, result, repeat, runs,
                queryvars, mainvars, faultvars, canonvars>>

\* add(), lines 288-306: the fetch and the delta
RaceFetch ==
    \E i \in Racers :
        /\ racers[i].pc = "fetch"
        /\ LET got == get_tags(Fresh(client), NoFail, FALSE)
               current_tags == make_tags_in_proper_format(got.results)
               to_update == tags_to_update(racers[i].tags, current_tags)
           IN  /\ client' = got.client
               /\ racers' = [racers EXCEPT ![i] =
                      [@ EXCEPT !.current_tags = current_tags,
                                !.success = TRUE,
                                !.pc = IF to_update # EmptyDict THEN "apply"
                                       ELSE "verify"]]
        /\ RaceUnchanged

\* add(), lines 308-316: the mutation
RaceApply ==
    \E i \in Racers :
        /\ racers[i].pc = "apply"
        /\ LET act == tags_action(Fresh(client), NoFail,
                                  make_tags_in_aws_format(racers[i].tags),
                                  "create", FALSE)
           IN  /\ client' = act.client
               /\ racers' = [racers EXCEPT ![i] =
                      [@ EXCEPT !.success = act.success,
                                !.changed = act.success,
                                !.pc = "verify"]]
        /\ RaceUnchanged

\* add(), lines 325-328: the re-fetch and the return
RaceVerify ==
    \E i \in Racers :
        /\ racers[i].pc = "verify"
        /\ LET new == get_tags(Fresh(client), NoFail, FALSE)
           IN  /\ client' = new.client
               /\ racers' = [racers EXCEPT ![i] =
                      [@ EXCEPT !.new_tags = make_tags_in_proper_format(new.results),
                                !.pc = "done"]]
        /\ RaceUnchanged

NextRace == RaceFetch \/ RaceApply \/ RaceVerify

SpecRace == InitRace /\ [][NextRace]_vars

\* ------------------------------------------------------------------------
\* The query modules: one run of a module against the region's groups
\* ------------------------------------------------------------------------
MaxGroups == 2

GroupNames == {"ab", "ba", "abb"}

FilterNames == {"", "a", "b", "ab", "a.", ".", "(", "a("}

QueryKeys == {"env", "team"}

QueryVals == {"prod", "dev"}

Tag(k, v) == [Key |-> k, Value |-> v]

\* the tag lists a group can carry
GroupTags ==
    {<<>>,
     <<Tag("env", "prod")>>,
     <<Tag("env", "prod"), Tag("team", "dev")>>,
     <<Tag("team", "dev"), Tag("env", "prod")>>,
     <<Tag("env", "prod"), Tag("team", "prod")>>,
     <<Tag("env", "dev"), Tag("team", "prod")>>}

\* the tag filters: dicts of up to two keys, in either iteration order
FilterTags ==
    {<<>>}
    \cup {<<<<k, v>>>> : k \in QueryKeys, v \in QueryVals}
    \cup {items \in {<<<<k1, v1>>, <<k2, v2>>>> :
                        k1 \in QueryKeys, v1 \in QueryVals,
                        k2 \in QueryKeys, v2 \in QueryVals} :
            items[1][1] # items[2][1]}

Group == [name : GroupNames, tags : GroupTags, subnets : {"subnet-a1,subnet-b2"}]

\* group names are unique within a region
Inventories ==
    UNION {{inv \in [1..n -> Group] :
               \A i, j \in 1..n : inv[i].name = inv[j].name => i = j} : n \in 0..MaxGroups}

InitQuery ==
    /\ client = [tags |-> EmptyDict, calls |-> <<>>]
    /\ before = EmptyDict
    /\ params = NoParams
    /\ result = NoResult
    /\ repeat = 0
    /\ runs = 0
    /\ groups \in Inventories
    /\ query = NoQuery
    /\ found = NoFound
    /\ report = NoReport
    /\ faults = NoFail
    /\ field = ""
    /\ canon = <<>>
    /\ racers = NoRacers

\* find_asgs() of ec2_asg_facts
FactsQuery ==
    /\ query.module = "none"
    /\ \E name \in {PyNone} \cup {PyVal(n) : n \in FilterNames},
          tags \in {PyNone} \cup {PyVal(t) : t \in FilterTags} :
          /\ query' = [module |-> "ec2_asg_facts", name |-> name, tags |-> tags]
          /\ found' = facts_find_asgs(groups, name, tags)
    /\ UNCHANGED <<groups, tagvars, mainvars, faultvars, canonvars, racevars>>

\* find_asgs() of ec2_asg_find
FindQuery ==
    /\ query.module = "none"
    /\ \E name \in FilterNames :
          /\ query' = [module |-> "ec2_asg_find", name |-> PyVal(name), tags |-> PyNone]
          /\ found' = find_find_asgs(name, groups)
    /\ UNCHANGED <<groups, tagvars, mainvars, faultvars, canonvars, racevars>>

NextQuery == FactsQuery \/ FindQuery

SpecQuery == InitQuery /\ [][NextQuery]_vars

\* ------------------------------------------------------------------------
\* One run of a query module's main() against an inventory
\* ------------------------------------------------------------------------
MaxLimit == 2

Limits == 0..MaxLimit

NoResultActions == {"success", "fail"}

\* the tag filters main() of ec2_asg_facts is run with
MainTags == {PyNone, PyVal(<<<<"env", "prod">>>>)}

\* the arguments of main() next to how it ended
Ended(limit_results, no_result_action, out) ==
    [limit_results |-> limit_results, no_result_action |-> no_result_action] @@ out

\* main() of ec2_asg_facts
FactsMain ==
    /\ query.module = "none"
    /\ \E name \in {PyNone} \cup {PyVal(n) : n \in FilterNames},
          tags \in MainTags,
          limit_results \in Limits,
          no_result_action \in NoResultActions :
          /\ query' = [module |-> "ec2_asg_facts", name |-> name, tags |-> tags]
          /\ found' = facts_find_asgs(groups, name, tags)
          /\ report' = Ended(limit_results, no_result_action,
                 facts_main(groups, name, tags, limit_results, no_result_action))
    /\ UNCHANGED <<groups, tagvars, faultvars, canonvars, racevars>>

\* main() of ec2_asg_find
FindMain ==
    /\ query.module = "none"
    /\ \E name \in FilterNames,
          limit_results \in Limits,
          no_result_action \in NoResultActions :
          /\ query' = [module |-> "ec2_asg_find", name |-> PyVal(name), tags |-> PyNone]
          /\ found' = find_find_asgs(name, groups)
          /\ report' = Ended(limit_results, no_result_action,
                 find_main(groups, name, limit_results, no_result_action))
    /\ UNCHANGED <<groups, tagvars, faultvars, canonvars, racevars>>

NextMain == FactsMain \/ FindMain

SpecMain == InitQuery /\ [][NextMain]_vars

\* ------------------------------------------------------------------------
\* The key canonicalizer applied to a field name, and again to its own output
\* ------------------------------------------------------------------------
MaxFieldLen == 3

MaxApply == 2

\* the characters field names are made of: capitals, small letters, '_'
FieldChars == {"A", "B", "c", "_"}

RECURSIVE Strings(_)
Strings(n) ==
    IF n = 0 THEN {""}
    ELSE LET shorter == Strings(n - 1)
         IN  shorter \cup {x \o c : x \in shorter, c \in FieldChars}

\* the provider's field names that find_asgs() canonicalizes, and every name
\* of up to MaxFieldLen characters
FieldNames ==
    Range(ScalarKeys) \cup Range(ListKeys) \cup ItemKeys \cup Strings(MaxFieldLen)

InitCanon ==
    /\ client = [tags |-> EmptyDict, calls |-> <<>>]
    /\ before = EmptyDict
    /\ params = NoParams
    /\ result = NoResult
    /\ repeat = 0
    /\ runs = 0
    /\ groups = <<>>
    /\ query = NoQuery
    /\ found = NoFound
    /\ report = NoReport
    /\ faults = NoFail
    /\ field \in FieldNames
    /\ canon = <<>>
    /\ racers = NoRacers

\* camel_prog.sub(r'_\1', key).lower() of the field name, then of its result
Canonicalize ==
    /\ Len(canon) < MaxApply
    /\ canon' = Append(canon, new_key(IF canon = <<>> THEN field ELSE canon[Len(canon)]))
    /\ UNCHANGED <<field, tagvars, queryvars, mainvars, faultvars, racevars>>

NextCanon == Canonicalize

SpecCanon == InitCanon /\ [][NextCanon]_vars

TypeOK ==
    /\ client.tags \in TagDicts
    /\ before \in TagDicts
    /\ result.outcome \in {"none", "return", "exit_json", "fail_json", "exception"}
    /\ repeat \in 0..2
    /\ runs \in 0..MaxRuns
    /\ found.exc \in {"none", "re.error"}

\* ------------------------------------------------------------------------
\* Properties of the tag reconciler (elasticache_tag.py)
\* ------------------------------------------------------------------------
MutationCalls == SelectSeq(client.calls, LAMBDA c : c.api # "list_tags_for_resource")

\* a real run of remove() with a dict of tags
RealRemove(p) == p.op = "remove" /\ ~p.check_mode /\ ~p.diff_mode

\* C1: two real add() reconciliations of the same desired tags in immediate
\* succession, the first started from tags that differ on a desired key:
\* the first reports changed, the second does not, and both return the same
\* tags and leave the same tags on the cluster.
C1_AddTwiceIdempotent ==
    [][(/\ RealAdd(params)
        /\ DiffersOnDesiredKey(params.tags, before)
        /\ RealAdd(params')
        /\ params'.tags = params.tags)
       => (/\ result.success /\ result.changed
           /\ result'.success /\ ~result'.changed
           /\ result'.tags = result.tags
           /\ client'.tags = client.tags)]_vars

\* the state after the second of two such runs: nothing left to update
C1_Witness ==
    /\ repeat = 2
    /\ RealAdd(params)
    /\ params.tags # EmptyDict
    /\ before = client.tags
    /\ result.success /\ ~result.changed
    /\ result.tags = client.tags
    /\ \A k \in DictKeys : has_key(params.tags, k) => client.tags[k] = params.tags[k]
    /\ Len(MutationCalls) = 0

\* C2: after a successful real add() the cluster's tags equal the desired
\* tags: every key that was not declared has been removed.
C2_AddIsAuthoritative ==
    (RealAdd(params) /\ result.success) => client.tags = params.tags

\* C3: a run of the module with state=absent ends in exit_json or fail_json,
\* changed iff a listed key was present, and with no listed key present it
\* succeeds unchanged without a mutation call.
C3_AbsentEndsStructured ==
    (params.op = "main" /\ params.state = "absent")
    => LET present == {k \in DictKeys : has_key(params.tags, k) /\ has_key(before, k)}
       IN  /\ result.outcome \in {"exit_json", "fail_json"}
           /\ result.changed <=> (present # {})
           /\ (present = {}) => (result.success /\ ~result.changed
                                 /\ Len(MutationCalls) = 0)

\* C4: a real remove() issues no add call; it issues one delete call carrying
\* exactly the desired keys the cluster carries (none when there is no such
\* key), a desired key the cluster lacks raises nothing, and afterwards the
\* cluster carries its former tags without those keys.
C4_RemoveDelta ==
    RealRemove(params)
    => LET present == {k \in DictKeys : has_key(params.tags, k) /\ has_key(before, k)}
       IN  /\ result.outcome = "return" /\ result.success
           /\ \A i \in DOMAIN MutationCalls :
                 /\ MutationCalls[i].api = "remove_tags_from_resource"
                 /\ Range(MutationCalls[i].TagKeys) = present
                 /\ Len(MutationCalls[i].TagKeys) = Cardinality(present)
           /\ Len(MutationCalls) = IF present = {} THEN 0 ELSE 1
           /\ client.tags = [k \in DictKeys |-> IF k \in present THEN NoTag ELSE before[k]]
           /\ result.changed <=> (present # {})

\* a real remove() of one key the cluster carries and one it does not
C4_Witness ==
    /\ RealRemove(params)
    /\ \E k \in DictKeys : has_key(params.tags, k) /\ has_key(before, k)
    /\ \E k \in DictKeys : has_key(params.tags, k) /\ ~has_key(before, k)
    /\ Len(MutationCalls) = 1
    /\ result.success /\ result.changed

\* a check mode run of add() or remove() (diff_mode False)
DryRun(p) ==
    /\ \/ p.op \in {"add", "remove"}
       \/ p.op = "main" /\ p.state = "present"
    /\ p.check_mode
    /\ ~p.diff_mode

\* the delta the code computes for an invocation from the tags it fetched
ComputedDelta(p, current) ==
    IF p.state = "present" THEN tags_to_update(p.tags, current)
    ELSE tags_to_delete(p.tags, current)

RealOutcome(p, current) ==
    IF p.state = "present"
    THEN add([tags |-> current, calls |-> <<>>], NoFail, p.tags, FALSE, FALSE).client.tags
    ELSE remove([tags |-> current, calls |-> <<>>], NoFail, PyDict(p.tags),
                FALSE, FALSE).client.tags

\* C6: a diff mode run of add() or remove() raises nothing, issues no
\* mutation call, and reports before = the current tags and after = the tags
\* a real reconciliation from the same tags would leave.
C6_DiffPreviewFaithful ==
    (params.op \in {"add", "remove"} /\ params.diff_mode)
    => /\ result.outcome = "return" /\ result.success
       /\ Len(MutationCalls) = 0
       /\ client.tags = before
       /\ result.diff.set
       /\ result.diff.before = before
       /\ result.diff.after = RealOutcome(params, before)

\* ------------------------------------------------------------------------
\* Properties of the query modules (ec2_asg_facts.py, ec2_asg_find.py)
\* ------------------------------------------------------------------------
\* the group names of the records a query returned, in the order returned
FoundNames ==
    [i \in DOMAIN found.results |->
        IF query.module = "ec2_asg_facts"
        THEN found.results[i].auto_scaling_group_name
        ELSE found.results[i].name]

\* the names of a sequence of groups, in order
NamesOf(kept) == [i \in DOMAIN kept |-> kept[i].name]

\* f is a leading substring of n
IsPrefix(f, n) == Len(n) >= Len(f) /\ SubSeq(n, 1, Len(f)) = f

\* group g carries every (key, value) pair of the filter items
HasAllPairs(items, g) ==
    \A i \in DOMAIN items :
        \E j \in DOMAIN g.tags :
            g.tags[j].Key = items[i][1] /\ g.tags[j].Value = items[i][2]

\* C7: with a non-empty name filter that compiles (and no tag filter), both
\* modules return exactly the groups whose name has the filter as a leading
\* substring.
C7_NameFilterIsPrefix ==
    (/\ query.module # "none"
     /\ Truthy(query.name) /\ ~re_error(query.name.v)
     /\ ~Truthy(query.tags))
    => /\ found.exc = "none"
       /\ FoundNames = NamesOf(SelectSeq(groups, LAMBDA g : IsPrefix(query.name.v, g.name)))

\* C8: with a non-empty tag filter (and no name filter) ec2_asg_facts returns
\* exactly the groups that carry every (key, value) pair of the filter,
\* whatever the order of the filter's keys and of the group's tags.
C8_TagFilterIsConjunction ==
    (/\ query.module = "ec2_asg_facts"
     /\ Truthy(query.tags)
     /\ ~Truthy(query.name))
    => /\ found.exc = "none"
       /\ FoundNames = NamesOf(SelectSeq(groups, LAMBDA g : HasAllPairs(query.tags.v, g)))

\* a two-pair filter, a group that carries both pairs in the other order and
\* is returned, and a group that carries only one of them and is not
C8_Witness ==
    /\ query.module = "ec2_asg_facts"
    /\ ~Truthy(query.name)
    /\ Truthy(query.tags) /\ Len(query.tags.v) = 2
    /\ Len(groups) = 2
    /\ \E i, j \in DOMAIN groups :
          /\ Len(groups[i].tags) = 2
          /\ HasAllPairs(query.tags.v, groups[i])
          /\ groups[i].tags[1].Key = query.tags.v[2][1]
          /\ Len(groups[j].tags) = 2
          /\ ~HasAllPairs(query.tags.v, groups[j])
          /\ HasAllPairs(<<query.tags.v[1]>>, groups[j])
          /\ FoundNames = <<groups[i].name>>

\* the name test of find_asgs() of ec2_asg_facts on a group of the region
PassesName(name, g) == ~Truthy(name) \/ re_search_anchored(name.v, g.name)

\* the tag test of find_asgs() of ec2_asg_facts on a group of the region
PassesTags(tags, g) == ~Truthy(tags) \/ HasAllPairs(tags.v, g)

\* C9: what ec2_asg_facts returns is the groups of the region that pass both
\* the name test and the tag test, each once, in the region's order.
C9_ResultIsFilteredInventory ==
    (query.module = "ec2_asg_facts" /\ found.exc = "none")
    => /\ FoundNames = NamesOf(SelectSeq(groups, LAMBDA g : PassesName(query.name, g)
                                             /\ PassesTags(query.tags, g)))
       /\ \A i \in DOMAIN found.results :
             \E j \in DOMAIN groups :
                /\ groups[j].name = FoundNames[i]
                /\ found.results[i].tags =
                      [t \in DOMAIN groups[j].tags |->
                          [key |-> groups[j].tags[t].Key,
                           value |-> groups[j].tags[t].Value,
                           resource_id |-> groups[j].name,
                           propagate_at_launch |-> TRUE]]

\* both filters given; the first group passes the name test only and is
\* dropped, the second passes both and is returned
C9_Witness ==
    /\ query.module = "ec2_asg_facts"
    /\ Truthy(query.name) /\ Truthy(query.tags)
    /\ Len(groups) = 2
    /\ PassesName(query.name, groups[1]) /\ ~PassesTags(query.tags, groups[1])
    /\ PassesName(query.name, groups[2]) /\ PassesTags(query.tags, groups[2])
    /\ found.exc = "none"
    /\ FoundNames = <<groups[2].name>>

\* C10: without a name filter (None or '') and without a tag filter (None or
\* {}), a query returns one record per group of the region, in the region's
\* order.
C10_NoFilterMatchesAll ==
    (/\ query.module # "none"
     /\ ~Truthy(query.name)
     /\ ~Truthy(query.tags))
    => /\ found.exc = "none"
       /\ Len(found.results) = Len(groups)
       /\ FoundNames = [i \in DOMAIN groups |-> groups[i].name]

\* ec2_asg_facts run with name=None and tags=None on a region of two groups
C10_Witness ==
    /\ query.module = "ec2_asg_facts"
    /\ query.name.none /\ query.tags.none
    /\ Len(groups) = 2
    /\ Len(found.results) = 2

\* ------------------------------------------------------------------------
\* Properties of main() of the query modules
\* ------------------------------------------------------------------------
\* main() has run
MainRan == report.outcome # "none"

\* the number of groups find_asgs() matched
Matches == Len(found.results)

\* C11: main() ends in fail_json with a msg and the names of all the matched
\* groups exactly when limit_results > 0 and more groups than limit_results
\* matched; with limit_results = 0 it never does.
C11_ResultCeiling ==
    (MainRan /\ found.exc = "none")
    => LET over == report.limit_results > 0 /\ Matches > report.limit_results
           hard == /\ report.outcome = "fail_json"
                   /\ report.msg # ""
                   /\ report.asg_names = PyVal(FoundNames)
       IN  over <=> hard

\* C12: when nothing matched, main() ends in fail_json with a msg exactly
\* when no_result_action is 'fail'; under 'success' it ends in exit_json
\* with changed false and empty results. Both query modules.
C12_EmptyResultPolicy ==
    (MainRan /\ found.exc = "none" /\ Matches = 0)
    => IF report.no_result_action = "fail"
       THEN report.outcome = "fail_json" /\ report.msg # ""
       ELSE report.outcome = "exit_json" /\ ~report.changed /\ report.results = <<>>

\* the name filter of the run does not compile as a regular expression
Malformed == Truthy(query.name) /\ re_error(query.name.v)

\* C13: a run whose name filter does not compile fails before any call to
\* the provider, whatever the inventory (the empty one included), and never
\* ends in a normal result.
C13_MalformedFilterFailsFast ==
    (MainRan /\ Malformed)
    => /\ report.outcome # "exit_json"
       /\ report.calls = <<>>

\* the keys the RETURN documentation of ec2_asg_facts and the loops of
\* find_asgs() promise whatever the provider's record contained
SchemaKeys ==
    {"placement_group", "status", "tags", "instances", "enabled_metrics",
     "suspended_processes", "vpc_zone_identifier"}

\* C14: every record ec2_asg_facts returns has the same key set, and the
\* keys placement_group, status, tags, instances, enabled_metrics,
\* suspended_processes and vpc_zone_identifier are always among them.
C14_StableSchema ==
    (query.module = "ec2_asg_facts" /\ found.exc = "none")
    => \A i \in DOMAIN found.results :
          /\ SchemaKeys \subseteq DOMAIN found.results[i]
          /\ \A j \in DOMAIN found.results :
                 DOMAIN found.results[j] = DOMAIN found.results[i]

\* ------------------------------------------------------------------------
\* Properties of the tag reconciler when remote calls fail
\* ------------------------------------------------------------------------
\* add() or remove() has run with diff_mode False and returned
Reconciled ==
    /\ params.op \in {"add", "remove"}
    /\ ~params.diff_mode
    /\ result.outcome = "return"

\* the first remote call of the run, the fetch of the current tags, raised
FetchFailed == Len(client.calls) >= 1 /\ ~client.calls[1].ok

\* C15: when the fetch of the current tags fails, add() and remove() report
\* failure and issue no mutation call.
C15_FetchFailureAborts ==
    (Reconciled /\ FetchFailed)
    => /\ ~result.success
       /\ Len(MutationCalls) = 0

\* the tags the run went on with after its fetch: those of the cluster, or
\* none when the fetch raised
Fetched == IF FetchFailed THEN EmptyDict ELSE before

\* nothing to do: for add() every desired key is fetched with the desired
\* value, for remove() no desired key is fetched
EmptyDelta ==
    \A k \in DictKeys :
        has_key(params.tags, k)
        => IF params.op = "add" THEN Fetched[k] = params.tags[k]
           ELSE ~has_key(Fetched, k)

FailedMutations == SelectSeq(MutationCalls, LAMBDA c : ~c.ok)

\* the returned result names the delta of mutation call c: its tags are the
\* tags that were to be written, or its keys the keys that were to be deleted
CarriesDelta(c) ==
    IF c.api = "add_tags_to_resource"
    THEN result.tags = make_tags_in_proper_format(c.Tags)
    ELSE DictKeySet(result.tags) = Range(c.TagKeys)

\* C17: when the mutation call fails, the run returns success false and
\* changed false together with the delta it attempted, and issues no second
\* mutation call; no run issues more than one mutation call.
C17_MutationFailureSurfaced ==
    Reconciled
    => /\ Len(MutationCalls) <= 1
       /\ FailedMutations # <<>>
          => /\ ~result.success
             /\ ~result.changed
             /\ CarriesDelta(FailedMutations[1])

\* a run that issued one mutation call, which succeeded
Applied == Len(MutationCalls) = 1 /\ MutationCalls[1].ok

\* the last remote call of the run: the re-fetch, when a mutation was issued
LastCall == client.calls[Len(client.calls)]

\* C18: a run that issues a mutation call always fetches the tags again
\* after it, and when the mutation and that fetch both succeed the tags it
\* returns are the tags the cluster carries after the mutation.
C18_VerifiedPostState ==
    (Reconciled /\ MutationCalls # <<>>)
    => /\ LastCall.api = "list_tags_for_resource"
       /\ client.calls[Len(client.calls) - 1].api # "list_tags_for_resource"
       /\ (Applied /\ LastCall.ok) => result.tags = client.tags

\* an add() that wrote its tags next to a tag the cluster keeps: the tags
\* returned are neither the desired tags nor the tags before the run
C18_Witness ==
    /\ Reconciled /\ params.op = "add"
    /\ Applied /\ LastCall.ok
    /\ LastCall.api = "list_tags_for_resource"
    /\ result.tags = client.tags
    /\ result.tags # params.tags
    /\ result.tags # before

\* the re-fetch after a mutation call raised
VerifyFailed ==
    /\ MutationCalls # <<>>
    /\ LastCall.api = "list_tags_for_resource"
    /\ ~LastCall.ok

\* the result tells that the re-fetch failed: it carries the err_msg that
\* get_tags() returned for it
VerifyWarning == result.err_msg = "ClientError"

\* C19: when the mutation succeeds and the re-fetch after it fails, the run
\* returns success with changed true and a warning that the tags after the
\* mutation could not be read; the mutation is neither undone nor repeated.
C19_VerifyFailureVisible ==
    (Reconciled /\ Applied /\ VerifyFailed)
    => /\ result.success
       /\ result.changed
       /\ VerifyWarning
       /\ Len(MutationCalls) = 1

\* ------------------------------------------------------------------------
\* Properties of the key canonicalizer (ec2_asg_facts.py)
\* ------------------------------------------------------------------------
\* name has no capital letter: it is in lower snake_case already
IsLowerSnake(name) == \A i \in 1..Len(name) : ~IsUpper(Char(name, i))

\* C20: canonicalizing the canonical form of a field name gives it back, and
\* a field name already in lower snake_case is its own canonical form.
C20_CanonicalizeIdempotent ==
    /\ (Len(canon) >= 1 /\ IsLowerSnake(field)) => canon[1] = field
    /\ \A i \in 2..Len(canon) : canon[i] = canon[1]

\* a field name that canonicalization changes by more than case, applied twice
C20_Witness ==
    /\ Len(canon) >= 2
    /\ Len(canon[1]) > Len(field)
    /\ ~IsLowerSnake(field)
    /\ canon[2] = canon[1]

\* ------------------------------------------------------------------------
\* Convergence of add()
\* ------------------------------------------------------------------------
\* every (key, value) pair of the desired tags is in tags
HasDesired(desired, tags) ==
    \A k \in DictKeys : has_key(desired, k) => tags[k] = desired[k]

\* C21: with every remote call succeeding and no other writer, a real add()
\* that reports success leaves every desired key on the cluster with its
\* desired value, and the tags it returns contain every desired pair.
C21_UpsertConverges ==
    (RealAdd(params) /\ result.outcome \in {"return", "exit_json"} /\ result.success)
    => /\ HasDesired(params.tags, client.tags)
       /\ HasDesired(params.tags, result.tags)

\* a real add() of two tags, neither of them on the cluster as desired
C21_Witness ==
    /\ RealAdd(params) /\ result.success /\ result.changed
    /\ Cardinality({k \in DictKeys : has_key(params.tags, k)
                                      /\ before[k] # params.tags[k]}) >= 2
    /\ HasDesired(params.tags, client.tags)
    /\ HasDesired(params.tags, result.tags)

\* ------------------------------------------------------------------------
\* Two interleaved add() calls
\* ------------------------------------------------------------------------
\* both calls of add() have returned
BothDone == \A i \in Racers : racers[i].pc = "done"

\* the calls whose desired tags have key k
Desiring(k) == {i \in Racers : has_key(racers[i].tags, k)}

====
